---- MODULE Spec2Model ----
(***************************************************************************)
(* Model of the incremental export engine of src/main.py (LokiExporter):   *)
(* the cursor store (init_state, __save_state, __get_state), the log       *)
(* source call (__get_logs), the sink dispatch (__export_logs) and the     *)
(* per-export day loop with pagination (run).                              *)
(*                                                                         *)
(* Time.  The program works on whole seconds since the epoch and on their  *)
(* decimal renderings with nine zeros appended ("nanosecond strings").     *)
(* The model keeps both representations and the conversions between them   *)
(* (str, int, Nano, Seconds); what it scales is the unit: one tick of the  *)
(* model stands for a fixed number of seconds and a day has DayTicks       *)
(* ticks.  The local time zone is taken to have a fixed offset, so that a  *)
(* naive local datetime and its timestamp() are the same number of ticks.  *)
(* A nanosecond string is a sequence of decimal digits 0..9.  With ticks   *)
(* for seconds, the step from one-digit to two-digit tick counts (tick 10) *)
(* stands for the step from ten-digit to eleven-digit second counts.  The  *)
(* date of "today" (clock_day) is chosen at the start and stays: every run *)
(* of one behaviour happens on the same day.                               *)
(***************************************************************************)
EXTENDS Integers, Sequences, FiniteSets, TLC

\* ---------------------------------------------------------------- bounds
\* Largest max_lines_per_query of the configurations explored.
MaxLines == 2
\* Largest number of result groups in one response of the log source.
MaxGroups == 2
\* Largest number of __get_logs calls the log source answers with a full
\* page within one day (the source eventually runs out of lines).
MaxPages == 3
\* Largest max_days_per_exporter of the configurations explored.
MaxCap == 2
\* Day number (since the epoch of the model) of "today".
TodayDay == 4
\* Windows starting at or after this day are not explored.
LastDay == 7
\* Longest query string the key derivation is explored on.
MaxQueryLen == 4
\* Largest number of lines a modelled log store holds.
MaxStore == 3

\* ------------------------------------------------------- program constants
\* Number of digits appended to / stripped from a seconds count.
NanoDigits == 9
\* Length of a day in ticks (86400 seconds in the program).
DayTicks == 2

\* ------------------------------------------------------- decimal strings
Zeros == [i \in 1..NanoDigits |-> 0]

RECURSIVE str(_)
\* str(n) for a natural number n, as a sequence of digits.
str(n) == IF n < 10 THEN <<n>> ELSE str(n \div 10) \o <<n % 10>>

RECURSIVE int(_)
\* int(s) for a sequence of digits s.
int(s) == IF s = <<>> THEN 0
          ELSE 10 * int(SubSeq(s, 1, Len(s) - 1)) + s[Len(s)]

\* Python's `a < b` on two strings of digits: the first differing character
\* decides; when one is a prefix of the other, the shorter one is smaller.
StrLess(a, b) ==
    LET n    == IF Len(a) < Len(b) THEN Len(a) ELSE Len(b)
        diff == {i \in 1..n : a[i] # b[i]}
    IN  IF diff = {} THEN Len(a) < Len(b)
        ELSE LET i == CHOOSE j \in diff : \A k \in diff : j <= k
             IN  a[i] < b[i]

\* str(int(seconds)) + "000000000"
Nano(sec) == str(sec) \o Zeros

\* int(ts[:-9])
Seconds(ts) == int(SubSeq(ts, 1, Len(ts) - NanoDigits))

\* ------------------------------------------------------------ export key
Lower == {"a","b","c","d","e","f","g","h","i","j","k","l","m",
          "n","o","p","q","r","s","t","u","v","w","x","y","z"}

RECURSIVE KeyOfNoDelete(_)
\* A substitution without the deleting group: every character that is not a
\* lowercase letter becomes an underscore.
KeyOfNoDelete(q) ==
    IF q = <<>> THEN <<>>
    ELSE (IF Head(q) \in Lower THEN <<Head(q)>> ELSE <<"_">>)
         \o KeyOfNoDelete(Tail(q))

RECURSIVE KeyOf(_)
\* re.sub(r"([{}\"])|[^a-z]", lambda m: "" if m.group(1) else "_", query)
KeyOf(q) ==
    IF q = <<>> THEN <<>>
    ELSE LET c == Head(q)
             r == KeyOf(Tail(q))
         IN  IF c \in {"{", "}", "\""} THEN r
             ELSE IF c \notin Lower THEN <<"_">> \o r
             ELSE <<c>> \o r

\* The queries of the configurations explored:
\*   {a="b"}   {a="1"}   {a="2"}     (the last two have the same key)
QueryB == <<"{", "a", "=", "\"", "b", "\"", "}">>
Query1 == <<"{", "a", "=", "\"", "1", "\"", "}">>
Query2 == <<"{", "a", "=", "\"", "2", "\"", "}">>

\* The characters of the query strings the key derivation is explored on:
\* lowercase letters, the deleted characters, and others.
QueryChars == {"a", "z", "{", "}", "\"", "=", "A"}

\* All query strings of at most MaxQueryLen characters.
QueryStrings == UNION { [1..n -> QueryChars] : n \in 0..MaxQueryLen }

\* ------------------------------------------------------------ configuration
\* The dates "today" can be: day TodayDay, or the day after (whose midnight,
\* in ticks, has one digit more).
ClockDays == {TodayDay, TodayDay + 1}

\* time_start values of the configurations explored: the middle of a day
\* three days before day TodayDay, and midnight of the day after it (its
\* tick count has one digit more).
TimeStarts == {(TodayDay - 3) * DayTicks + 1, (TodayDay + 1) * DayTicks}

\* The second export of a configuration: disabled, enabled with a query whose
\* key equals the first export's, or enabled with a query of its own.
SecondExports ==
    { [query |-> Query2, enabled |-> FALSE, time_start |-> (TodayDay - 3) * DayTicks + 1],
      [query |-> Query2, enabled |-> TRUE,  time_start |-> (TodayDay - 2) * DayTicks],
      [query |-> QueryB, enabled |-> TRUE,  time_start |-> (TodayDay - 2) * DayTicks] }

\* conf/loki-export.yaml, as far as run() reads it.
Configs ==
    { [ exports  |-> << [query |-> Query1, enabled |-> TRUE, time_start |-> t], e2 >>,
        max_lines_per_query  |-> l,
        max_days_per_exporter |-> m,
        export_holdoff_days  |-> h,
        local_enabled |-> TRUE,
        s3_enabled    |-> s ] :
      t \in TimeStarts, e2 \in SecondExports, l \in 1..MaxLines,
      m \in 0..MaxCap, h \in 0..1, s \in BOOLEAN }

\* Configurations of one enabled export with any of the query strings,
\* starting today (no day is due).
KeyConfigs ==
    { [ exports  |-> << [query |-> q, enabled |-> TRUE,
                         time_start |-> TodayDay * DayTicks] >>,
        max_lines_per_query  |-> 1,
        max_days_per_exporter |-> 0,
        export_holdoff_days  |-> 0,
        local_enabled |-> TRUE,
        s3_enabled    |-> FALSE ] : q \in QueryStrings }

\* The day window of the configurations with a modelled log store, in ticks:
\* the day before the holdoff boundary of a holdoff of one day.
StoreDayStart == (TodayDay - 2) * DayTicks

\* Configurations of one enabled export with one day due.
StoreConfigs ==
    { [ exports  |-> << [query |-> Query1, enabled |-> TRUE,
                         time_start |-> StoreDayStart] >>,
        max_lines_per_query  |-> l,
        max_days_per_exporter |-> 0,
        export_holdoff_days  |-> 1,
        local_enabled |-> TRUE,
        s3_enabled    |-> FALSE ] : l \in 1..MaxLines }

\* The log stores modelled: at most MaxStore lines of the day window, each
\* with its timestamp (a tick) and the stream it belongs to, in the order
\* of their timestamps.  Lines of later positions with the same timestamp
\* are the ones the store returns later.
Stores ==
    { [present |-> TRUE, lines |-> l] :
        l \in UNION { { f \in [1..n -> [ts : StoreDayStart..(StoreDayStart + DayTicks - 1),
                                        stream : 1..MaxGroups]] :
                          \A i \in 1..(n - 1) : f[i].ts <= f[i + 1].ts } :
                      n \in 0..MaxStore } }

\* ------------------------------------------------------------------ state
VARIABLES
    config,            \* self.__config
    file_state,        \* the cursor file: [valid, map]; valid = it parses as JSON
    dict_state,        \* self.dict_state
    pc,                \* position of the process in run()
    idx,               \* index of the current item of config["exports"]
    key,               \* run(): key
    ts_holdoff,        \* run(): ts_holdoff
    ts_start,          \* run(): ts_start
    ts_end,            \* run(): ts_end
    day_counter,       \* run(): day_counter
    lst_logs,          \* run(): lst_logs
    batch_nr,          \* run(): batch_nr
    batch_size,        \* run(): batch_size
    sinks,             \* what the last __export_logs call did to each sink
    \* history of the current day window
    last_kind,         \* kind of the last response of the log source
    n_get,             \* number of __get_logs calls
    n_full,            \* ... of them answered with a full page
    n_batches,         \* ... of them answered with at least one result group
    exp_iters,         \* iteration numbers of the __export_logs calls, in order
    \* history of the current export and of the cursor file
    n_days,            \* day windows fetched for this export in this run
    left_by,           \* how the day loop of the last export ended
    attempted,         \* per key: end of the last window a fetch was made for
    durable,           \* the cursor map last written completely
    \* environment
    clock_day,         \* datetime.date.today(), as a day number
    store,             \* the log store behind the source, where one is modelled
    observed,          \* what another process last read from the cursor file
    \* metrics, in the specifications that look at them
    metered,           \* whether self.__dict_metrics is modelled
    dict_metrics,      \* self.__dict_metrics
    export_calls,      \* number of __export_logs calls of the run
    \* history of the current day window against a modelled log store
    queries,           \* (start, end) of the __get_logs calls, in order
    exported           \* the __export_logs calls: iteration, ts_day, lst_logs

locals == <<idx, key, ts_holdoff, ts_start, ts_end, day_counter, lst_logs,
            batch_nr, batch_size>>
dayhist == <<last_kind, n_get, n_full, n_batches, exp_iters>>
runhist == <<n_days, left_by>>
fixed == <<clock_day, store, metered>>
meters == <<dict_metrics, export_calls>>
linehist == <<queries, exported>>
vars == <<config, file_state, dict_state, pc, locals, sinks, dayhist, runhist,
          attempted, durable, fixed, observed, meters, linehist>>

\* "today" at 00:00:00 local time, in ticks (datetime.date.today()).
today == clock_day * DayTicks

EmptyMap == [k \in {} |-> <<>>]

\* d[k] = v, as the Python statement does it on a dict.
Put(d, k, v) == [x \in DOMAIN d \cup {k} |-> IF x = k THEN v ELSE d[x]]

NoSinks == [local |-> "none", s3 |-> "none"]

\* No log store is modelled: the source answers as it likes (Responses).
NoStore == [present |-> FALSE, lines |-> <<>>]

\* __inc_metric(metric, incr) on the metrics dict d.
inc_metric(d, metric, incr) ==
    IF metric \notin DOMAIN d THEN Put(d, metric, incr)
    ELSE Put(d, metric, d[metric] + incr)

\* ------------------------------------------------------------- log source
\* Non-decreasing sequences of n lines with timestamps out of the ticks T.
\* A line is the pair (timestamp string, message); the messages of a source
\* without a modelled store are all the same (0).
ValuesOfLen(T, n) ==
    { [i \in 1..n |-> <<Nano(s[i]), 0>>] :
        s \in {f \in [1..n -> T] : \A i \in 1..(n - 1) : f[i] <= f[i + 1]} }

RECURSIVE ResultsOf(_, _, _)
\* data.result of a response: g result groups holding at most l lines in all.
ResultsOf(T, l, g) ==
    IF g = 0 THEN {<<>>}
    ELSE UNION { { <<[values |-> v]>> \o r : v \in ValuesOfLen(T, n),
                                            r \in ResultsOf(T, l - n, g - 1) } :
                 n \in 0..l }

\* What a call of the log source for the window [lo, hi) can end in: a
\* transport error, a body that is not the expected JSON, or a JSON body
\* with a status and, on success, zero or more result groups.
Responses(lo, hi) ==
    { [kind |-> "transport", status |-> "none", result |-> <<>>],
      [kind |-> "malformed", status |-> "none", result |-> <<>>],
      [kind |-> "body", status |-> "error", result |-> <<>>] }
    \cup
    { [kind |-> "body", status |-> "success", result |-> r] :
        r \in UNION { ResultsOf(lo..(hi - 1), config.max_lines_per_query, g) :
                      g \in 0..MaxGroups } }

\* requests.get(...) or result.json() or a dict lookup raises.
GetLogsRaises(resp) == resp.kind # "body"

\* Return value of __get_logs for a response that does not raise.
get_logs(resp) ==
    IF resp.status = "success"
    THEN IF Len(resp.result) > 0 THEN resp.result ELSE <<>>
    ELSE <<>>

\* The kind of a response, for the history variables.
KindOf(resp) ==
    IF resp.kind # "body" THEN resp.kind
    ELSE IF resp.status # "success" THEN "nonsuccess"
    ELSE IF Len(resp.result) = 0 THEN "empty"
    ELSE "groups"

\* len(lst_logs[0]["values"]) if len(lst_logs) > 0 else 0
SizeOf(logs) == IF Len(logs) > 0 THEN Len(logs[1].values) ELSE 0

\* --------------------------------------------------- a modelled log store
\* Line i of the store as the source returns it: its timestamp string and
\* its message (here: its position, which tells the lines apart).
StoreLine(i) == <<Nano(store.lines[i].ts), i>>

\* The positions of the lines of the store with lo <= timestamp < hi.
Held(lo, hi) ==
    {i \in 1..Len(store.lines) :
        lo <= store.lines[i].ts /\ store.lines[i].ts < hi}

RECURSIVE Ascending(_)
\* The numbers of a finite set, in ascending order.
Ascending(S) ==
    IF S = {} THEN <<>>
    ELSE LET m == CHOOSE x \in S : \A y \in S : x <= y
         IN  <<m>> \o Ascending(S \ {m})

\* direction=forward&limit=L: the first L lines of the window.
StorePage(lo, hi) ==
    LET all == Ascending(Held(lo, hi))
        n   == IF Len(all) < config.max_lines_per_query
               THEN Len(all) ELSE config.max_lines_per_query
    IN  SubSeq(all, 1, n)

RECURSIVE GroupsFrom(_, _)
\* data.result for a page: one result group per stream that has a line in
\* the page, from stream g on, each with its lines in order.
GroupsFrom(page, g) ==
    IF g > MaxGroups THEN <<>>
    ELSE LET InStream(i) == store.lines[i].stream = g
             mine == SelectSeq(page, InStream)
             grp  == [values |-> [n \in 1..Len(mine) |-> StoreLine(mine[n])]]
         IN  (IF Len(mine) > 0 THEN <<grp>> ELSE <<>>) \o GroupsFrom(page, g + 1)

\* The response of a source that answers from the store, with an inclusive
\* start and an exclusive end.
StoreResponse(lo, hi) ==
    [kind |-> "body", status |-> "success",
     result |-> GroupsFrom(StorePage(lo, hi), 1)]

\* ---------------------------------------------------------- time windows
\* __time_until_end_of_day(dt).total_seconds(): from dt to the next local
\* midnight.
time_until_end_of_day(dt) == DayTicks - (dt % DayTicks)

\* __get_time_boundaries(obj_datetime_start) = (ts_start, ts_end)
get_time_boundaries(dt) ==
    << Nano(dt), Nano(dt + time_until_end_of_day(dt)) >>

\* __calculate_holdoff_timestamp()
calculate_holdoff_timestamp ==
    LET holdoff_days == IF config.export_holdoff_days # 0
                        THEN config.export_holdoff_days ELSE 0
    IN  Nano(today - holdoff_days * DayTicks)

\* The guard of the day loop, `ts_start < ts_holdoff`, on two strings.
HoldoffGuard(a, b) == StrLess(a, b)

\* ----------------------------------------------------------- cursor store
\* A lookup that never finds the key.
get_state_none(k) == <<>>

\* __get_state(key): the cursor of the key, or None (modelled as <<>>).
get_state(k) == IF k \in DOMAIN dict_state THEN dict_state[k] ELSE <<>>

\* A start that is always the configured one.
ResolveStartFromConfig(state_time, time_start) == time_start

\* The start instant run() resolves for an export: the cursor if there is
\* one (`if state_time:`), else the configured time_start.
ResolveStart(state_time, time_start) ==
    IF state_time # <<>> THEN Seconds(state_time) ELSE time_start

\* The cursor written before the tail of the day is exported.
SavePointEarly == pc \in {"tail", "save"}

\* Position in run() at which __save_state is called: after the page loop
\* and the export of the tail, or after a first fetch without result.
SavePoint == pc = "save"

\* ------------------------------------------------------------------ sinks
\* __export_logs for one batch: the local write comes first, the object
\* storage write second; a write that raises ends the call (and the run).
\* local_ok, s3_ok: whether the sink's write, if attempted, goes through.
export_logs(local_ok, s3_ok) ==
    LET loc == IF config.local_enabled
               THEN (IF local_ok THEN "ok" ELSE "fail") ELSE "none"
        obj == IF loc = "fail" THEN "none"
               ELSE IF config.s3_enabled
                    THEN (IF s3_ok THEN "ok" ELSE "fail") ELSE "none"
    IN  [local |-> loc, s3 |-> obj]

ExportRaises(res) == res.local = "fail" \/ res.s3 = "fail"

\* ------------------------------------------------------------ process life
\* The locals of run() before the first export is looked at.
ResetLocals ==
    /\ idx' = 1
    /\ key' = <<>>
    /\ ts_holdoff' = <<>>
    /\ ts_start' = <<>>
    /\ ts_end' = <<>>
    /\ day_counter' = 0
    /\ lst_logs' = <<>>
    /\ batch_nr' = 0
    /\ batch_size' = 0

ResetDay ==
    /\ last_kind' = "none"
    /\ n_get' = 0
    /\ n_full' = 0
    /\ n_batches' = 0
    /\ exp_iters' = <<>>
    /\ queries' = <<>>
    /\ exported' = <<>>

\* An exception nothing catches: the process ends, its memory is gone.
Raise ==
    /\ pc' = "failed"
    /\ ResetLocals

\* State after LokiExporter() has been constructed for the first time:
\* init_state() found no cursor file and wrote "{}".
Fresh ==
    /\ file_state = [valid |-> TRUE, map |-> EmptyMap]
    /\ dict_state = EmptyMap
    /\ pc = "for"
    /\ idx = 1 /\ key = <<>> /\ ts_holdoff = <<>> /\ ts_start = <<>>
    /\ ts_end = <<>> /\ day_counter = 0 /\ lst_logs = <<>>
    /\ batch_nr = 0 /\ batch_size = 0
    /\ sinks = NoSinks
    /\ last_kind = "none" /\ n_get = 0 /\ n_full = 0 /\ n_batches = 0
    /\ exp_iters = <<>>
    /\ n_days = 0 /\ left_by = "none"
    /\ attempted = EmptyMap
    /\ durable = EmptyMap
    /\ observed = file_state
    /\ dict_metrics = EmptyMap
    /\ export_calls = 0
    /\ queries = <<>>
    /\ exported = <<>>

\* The source answers as it likes; the metrics are left out.
Init ==
    /\ Fresh
    /\ config \in Configs
    /\ clock_day \in ClockDays
    /\ store = NoStore
    /\ metered = FALSE

\* A later invocation of the job: a new process, init_state() reads the file.
Restart ==
    /\ pc \in {"done", "failed", "crashed"}
    /\ file_state.valid
    /\ dict_state' = file_state.map
    /\ pc' = "for"
    /\ ResetLocals
    /\ ResetDay
    /\ sinks' = NoSinks
    /\ n_days' = 0 /\ left_by' = "none"
    /\ dict_metrics' = EmptyMap
    /\ export_calls' = 0
    /\ UNCHANGED <<config, file_state, attempted, durable, fixed, observed>>

\* ------------------------------------------------------------------ run()
\* for item in exports: an item whose enabled flag is not True is passed over.
ForSkip ==
    /\ pc = "for"
    /\ idx <= Len(config.exports)
    /\ ~config.exports[idx].enabled
    /\ idx' = idx + 1
    /\ UNCHANGED <<config, file_state, dict_state, pc, key, ts_holdoff, ts_start,
                   ts_end, day_counter, lst_logs, batch_nr, batch_size, sinks,
                   dayhist, runhist, attempted, durable, fixed, observed,
                   meters, linehist>>

\* An enabled item: key, holdoff boundary, start instant, first window.
ForBegin ==
    /\ pc = "for"
    /\ idx <= Len(config.exports)
    /\ config.exports[idx].enabled
    /\ LET k  == KeyOf(config.exports[idx].query)
           tb == get_time_boundaries(
                     ResolveStart(get_state(k), config.exports[idx].time_start))
       IN  /\ key' = k
           /\ ts_holdoff' = calculate_holdoff_timestamp
           /\ ts_start' = tb[1]
           /\ ts_end' = tb[2]
    /\ day_counter' = 0
    /\ pc' = "while"
    /\ ResetDay
    /\ n_days' = 0 /\ left_by' = "none"
    /\ UNCHANGED <<config, file_state, dict_state, idx, lst_logs, batch_nr,
                   batch_size, sinks, attempted, durable, fixed, observed,
                   meters>>

\* The list of exports is exhausted: run() returns.
ForEnd ==
    /\ pc = "for"
    /\ idx > Len(config.exports)
    /\ pc' = "done"
    /\ UNCHANGED <<config, file_state, dict_state, locals, sinks, dayhist,
                   runhist, attempted, durable, fixed, observed, meters,
                   linehist>>

\* while ts_start < ts_holdoff: the guard is false, on to the next export.
WhileExit ==
    /\ pc = "while"
    /\ ~HoldoffGuard(ts_start, ts_holdoff)
    /\ idx' = idx + 1
    /\ pc' = "for"
    /\ left_by' = "guard"
    /\ UNCHANGED <<config, file_state, dict_state, key, ts_holdoff, ts_start,
                   ts_end, day_counter, lst_logs, batch_nr, batch_size, sinks,
                   dayhist, n_days, attempted, durable, fixed, observed,
                   meters, linehist>>

\* A cap that stops one day early.
OverCapOffByOne(counter, max_days) == max_days # 0 /\ counter >= max_days

\* Whether the day counter, already incremented, is over the configured cap.
OverCap(counter, max_days) == max_days # 0 /\ counter > max_days

\* The guard holds but the day counter passes max_days: break.
WhileBreak ==
    /\ pc = "while"
    /\ HoldoffGuard(ts_start, ts_holdoff)
    /\ OverCap(day_counter + 1, config.max_days_per_exporter)
    /\ day_counter' = day_counter + 1
    /\ idx' = idx + 1
    /\ pc' = "for"
    /\ left_by' = "cap"
    /\ UNCHANGED <<config, file_state, dict_state, key, ts_holdoff, ts_start,
                   ts_end, lst_logs, batch_nr, batch_size, sinks, dayhist,
                   n_days, attempted, durable, fixed, observed, meters,
                   linehist>>

\* The guard holds and the cap does not stop the loop: a day begins.
WhileBody ==
    /\ pc = "while"
    /\ HoldoffGuard(ts_start, ts_holdoff)
    /\ ~OverCap(day_counter + 1, config.max_days_per_exporter)
    /\ Seconds(ts_start) < LastDay * DayTicks
    /\ day_counter' = day_counter + 1
    /\ pc' = "get_logs"
    /\ ResetDay
    /\ UNCHANGED <<config, file_state, dict_state, idx, key, ts_holdoff,
                   ts_start, ts_end, lst_logs, batch_nr, batch_size, sinks,
                   runhist, attempted, durable, fixed, observed, meters>>


\* Whether the page loop goes on: `while batch_size == max_lines`.
PageFull(size, max_lines) == size = max_lines

\* A response whose first result group holds exactly max_lines_per_query
\* lines (a statement about the response, not about what run() does with it).
IsFullPage(resp) ==
    /\ resp.kind = "body"
    /\ resp.status = "success"
    /\ Len(resp.result) > 0
    /\ Len(resp.result[1].values) = config.max_lines_per_query

\* The source gives a full page at most MaxPages times a day.
SourceAllows(resp) == IsFullPage(resp) => n_full < MaxPages

\* The timestamp of the first line of the batch instead of the last.
ts_start_first == lst_logs[1].values[1][1]

\* ts_start_interim = lst_logs[0]["values"][-1][0]
ts_start_interim == lst_logs[1].values[Len(lst_logs[1].values)][1]

\* The start of the __get_logs call about to be made: ts_start for the
\* initial batch, ts_start_interim in the page loop.
QueryStart == IF pc = "get_logs" THEN ts_start ELSE ts_start_interim

\* History of a __get_logs call for the current window.
NoteFetch(resp) ==
    /\ last_kind' = KindOf(resp)
    /\ n_get' = n_get + 1
    /\ n_full' = IF IsFullPage(resp) THEN n_full + 1 ELSE n_full
    /\ n_batches' = IF KindOf(resp) = "groups" THEN n_batches + 1 ELSE n_batches
    /\ attempted' = Put(attempted, key, Seconds(ts_end))
    /\ queries' = IF store.present
                  THEN Append(queries, [start |-> QueryStart, end |-> ts_end])
                  ELSE queries

\* Initial batch: lst_logs = __get_logs(query, ts_start, ts_end); batch_nr = 1
InitialFetchGot(resp) ==
    /\ SourceAllows(resp)
    /\ NoteFetch(resp)
    /\ n_days' = n_days + 1
    /\ IF GetLogsRaises(resp)
       THEN Raise
       ELSE /\ lst_logs' = get_logs(resp)
            /\ batch_nr' = 1
            /\ IF Len(lst_logs') > 0
               THEN /\ batch_size' = SizeOf(lst_logs')
                    /\ pc' = IF PageFull(batch_size', config.max_lines_per_query)
                             THEN "page_export" ELSE "tail"
               ELSE /\ batch_size' = batch_size
                    /\ pc' = "save"
            /\ UNCHANGED <<idx, key, ts_holdoff, ts_start, ts_end, day_counter>>
    /\ UNCHANGED <<config, file_state, dict_state, sinks, exp_iters, left_by,
                   durable, fixed, observed, meters, exported>>

\* The ts_day argument of both __export_logs calls of run(): ts_start.
ExportDay == ts_start

\* History of an __export_logs call.
NoteExport ==
    /\ exp_iters' = Append(exp_iters, batch_nr)
    /\ export_calls' = IF metered THEN export_calls + 1 ELSE export_calls
    /\ exported' = IF store.present
                   THEN Append(exported, [iteration |-> batch_nr,
                                          ts_day |-> ExportDay,
                                          logs |-> lst_logs])
                   ELSE exported

\* self.__inc_metric("batches-sent", batch_nr), after the tail of the day.
CountBatches ==
    dict_metrics' = IF metered
                    THEN inc_metric(dict_metrics, "batches-sent", batch_nr)
                    ELSE dict_metrics

\* In the page loop: __export_logs(lst_logs, export_format, key, ts_start, batch_nr)
PageExport(local_ok, s3_ok) ==
    /\ pc = "page_export"
    /\ sinks' = export_logs(local_ok, s3_ok)
    /\ NoteExport
    /\ IF ExportRaises(sinks')
       THEN Raise
       ELSE /\ pc' = "page_fetch"
            /\ UNCHANGED locals
    /\ UNCHANGED <<config, file_state, dict_state, last_kind, n_get, n_full,
                   n_batches, runhist, attempted, durable, fixed, observed,
                   dict_metrics, queries>>

\* In the page loop: the next batch, from the last line's timestamp to the
\* end of the day; batch_nr += 1; then the loop test.
PageFetchGot(resp) ==
    /\ SourceAllows(resp)
    /\ NoteFetch(resp)
    /\ IF GetLogsRaises(resp)
       THEN Raise
       ELSE /\ lst_logs' = get_logs(resp)
            /\ batch_size' = SizeOf(lst_logs')
            /\ batch_nr' = batch_nr + 1
            /\ pc' = IF PageFull(batch_size', config.max_lines_per_query)
                     THEN "page_export" ELSE "tail"
            /\ UNCHANGED <<idx, key, ts_holdoff, ts_start, ts_end, day_counter>>
    /\ UNCHANGED <<config, file_state, dict_state, sinks, exp_iters, runhist,
                   durable, fixed, observed, meters, exported>>

InitialFetch ==
    /\ pc = "get_logs"
    /\ \E resp \in Responses(Seconds(ts_start), Seconds(ts_end)) :
           InitialFetchGot(resp)

PageFetch ==
    /\ pc = "page_fetch"
    /\ \E resp \in Responses(Seconds(ts_start_interim), Seconds(ts_end)) :
           PageFetchGot(resp)

\* The two fetches against a modelled log store.
StoreInitialFetch ==
    /\ pc = "get_logs"
    /\ store.present
    /\ InitialFetchGot(StoreResponse(Seconds(ts_start), Seconds(ts_end)))

StorePageFetch ==
    /\ pc = "page_fetch"
    /\ store.present
    /\ PageFetchGot(StoreResponse(Seconds(ts_start_interim), Seconds(ts_end)))

\* A tail export without the test for an empty result.
TailAlwaysExported(logs) == TRUE

\* Whether the batch left after the page loop is exported: `if len(lst_logs) > 0`.
TailIsExported(logs) == Len(logs) > 0

\* Export the tail end of logs.
TailExport(local_ok, s3_ok) ==
    /\ pc = "tail"
    /\ TailIsExported(lst_logs)
    /\ sinks' = export_logs(local_ok, s3_ok)
    /\ NoteExport
    /\ IF ExportRaises(sinks')
       THEN /\ Raise
            /\ UNCHANGED dict_metrics
       ELSE /\ pc' = "save"
            /\ CountBatches
            /\ UNCHANGED locals
    /\ UNCHANGED <<config, file_state, dict_state, last_kind, n_get, n_full,
                   n_batches, runhist, attempted, durable, fixed, observed,
                   queries>>

\* The last page came back without a result: nothing is left to export.
TailSkip ==
    /\ pc = "tail"
    /\ ~TailIsExported(lst_logs)
    /\ pc' = "save"
    /\ CountBatches
    /\ UNCHANGED <<config, file_state, dict_state, locals, sinks, dayhist,
                   runhist, attempted, durable, fixed, observed, export_calls,
                   linehist>>

\* A save that keeps the entry of the key alone.
save_state_only(d, k, ts) == [x \in {k} |-> ts]

\* A save that loses the update.
save_state_lost(d, k, ts) == d

\* __save_state(key, ts): self.dict_state[key] = ts, as a new map.
save_state(d, k, ts) == Put(d, k, ts)

\* store last timestamp: __save_state(key, ts_end) rewrites the whole file;
\* then ts_start, ts_end are recalculated for the next day.  lst_logs,
\* batch_nr and batch_size are dead here (each is assigned again before it
\* is read) and are cleared.
SaveState ==
    /\ SavePoint
    /\ dict_state' = save_state(dict_state, key, ts_end)
    /\ file_state' = [valid |-> TRUE, map |-> dict_state']
    /\ durable' = dict_state'
    /\ LET tb == get_time_boundaries(Seconds(ts_end))
       IN  /\ ts_start' = tb[1]
           /\ ts_end' = tb[2]
    /\ pc' = "while"
    /\ lst_logs' = <<>> /\ batch_nr' = 0 /\ batch_size' = 0
    /\ UNCHANGED <<config, idx, key, ts_holdoff, day_counter, sinks, dayhist,
                   runhist, attempted, fixed, observed, meters, linehist>>

\* ---------------------------------------------------------------- crashes
Running == pc \in {"for", "while", "get_logs", "page_export", "page_fetch",
                   "tail", "save"}

\* The process is killed between two steps of run().
Crash ==
    /\ Running
    /\ pc' = "crashed"
    /\ ResetLocals
    /\ UNCHANGED <<config, file_state, dict_state, sinks, dayhist, runhist,
                   attempted, durable, fixed, observed, meters, linehist>>

\* The process is killed inside __save_state, after open(file_state, "w")
\* has truncated the file and before json.dump's output is flushed: the file
\* holds a proper prefix of the document, which is no JSON document.
CrashInSave ==
    /\ SavePoint
    /\ dict_state' = save_state(dict_state, key, ts_end)
    /\ file_state' = [valid |-> FALSE, map |-> EmptyMap]
    /\ pc' = "crashed"
    /\ ResetLocals
    /\ UNCHANGED <<config, sinks, dayhist, runhist, attempted, durable, fixed,
                   observed, meters, linehist>>

\* A later invocation finds a file json.loads rejects: init_state raises.
RestartFails ==
    /\ pc \in {"done", "failed", "crashed"}
    /\ ~file_state.valid
    /\ pc' = "init_failed"
    /\ UNCHANGED <<config, file_state, dict_state, locals, sinks, dayhist,
                   runhist, attempted, durable, fixed, observed, meters,
                   linehist>>

\* ------------------------------------------- a reader of the cursor file
\* __save_state as the two steps another process can tell apart.  First
\* self.dict_state[key] = ts and open(self.file_state, "w"): the file exists
\* and is empty, which is no JSON document.
SaveOpen ==
    /\ SavePoint
    /\ dict_state' = save_state(dict_state, key, ts_end)
    /\ file_state' = [valid |-> FALSE, map |-> EmptyMap]
    /\ pc' = "saving"
    /\ UNCHANGED <<config, locals, sinks, dayhist, runhist, attempted, durable,
                   fixed, observed, meters, linehist>>

\* Then json.dump and the close at the end of the with block: the file holds
\* the whole map; run() goes on to the next day as in SaveState.
SaveClose ==
    /\ pc = "saving"
    /\ file_state' = [valid |-> TRUE, map |-> dict_state]
    /\ durable' = dict_state
    /\ LET tb == get_time_boundaries(Seconds(ts_end))
       IN  /\ ts_start' = tb[1]
           /\ ts_end' = tb[2]
    /\ pc' = "while"
    /\ lst_logs' = <<>> /\ batch_nr' = 0 /\ batch_size' = 0
    /\ UNCHANGED <<config, dict_state, idx, key, ts_holdoff, day_counter, sinks,
                   dayhist, runhist, attempted, fixed, observed, meters,
                   linehist>>

\* Another process (a second job instance running init_state, a backup)
\* reads the cursor file, at any moment.
Read ==
    /\ observed # file_state
    /\ observed' = file_state
    /\ UNCHANGED <<config, file_state, dict_state, pc, locals, sinks, dayhist,
                   runhist, attempted, durable, fixed, meters, linehist>>

\* ---------------------------------------------------------- specifications
Next ==
    \/ ForSkip
    \/ ForBegin
    \/ ForEnd
    \/ WhileExit
    \/ WhileBreak
    \/ WhileBody
    \/ InitialFetch
    \/ \E l \in BOOLEAN, s \in BOOLEAN : PageExport(l, s)
    \/ PageFetch
    \/ \E l \in BOOLEAN, s \in BOOLEAN : TailExport(l, s)
    \/ TailSkip
    \/ SaveState
    \/ Restart

Spec == Init /\ [][Next]_vars

NextCrash ==
    \/ Next
    \/ Crash
    \/ CrashInSave
    \/ RestartFails

SpecCrash == Init /\ [][NextCrash]_vars

\* The key derivation on all query strings: runs, one after the other, of a
\* configuration whose only export has nothing due.
InitKey ==
    /\ Fresh
    /\ config \in KeyConfigs
    /\ clock_day = TodayDay
    /\ store = NoStore
    /\ metered = FALSE

NextKey ==
    \/ ForBegin
    \/ WhileExit
    \/ ForEnd
    \/ Restart

SpecKey == InitKey /\ [][NextKey]_vars

\* One run over one day window against a modelled log store, with sink
\* writes that go through.  After a full page such a source always has a
\* line to return (the last one of the page at least), so the page loop
\* never ends on an empty result here.
InitStore ==
    /\ Fresh
    /\ config \in StoreConfigs
    /\ clock_day = TodayDay
    /\ store \in Stores
    /\ metered = FALSE

NextStore ==
    \/ ForBegin
    \/ ForEnd
    \/ WhileExit
    \/ WhileBody
    \/ StoreInitialFetch
    \/ PageExport(TRUE, TRUE)
    \/ StorePageFetch
    \/ TailExport(TRUE, TRUE)
    \/ SaveState

SpecStore == InitStore /\ [][NextStore]_vars

\* The runs of the job with its metrics (second export disabled, local sink
\* only, a holdoff of one day).
InitMetrics ==
    /\ Fresh
    /\ config \in {c \in Configs : /\ ~c.exports[2].enabled
                                    /\ ~c.s3_enabled
                                    /\ c.export_holdoff_days = 1}
    /\ clock_day = TodayDay
    /\ store = NoStore
    /\ metered = TRUE

SpecMetrics == InitMetrics /\ [][Next]_vars

\* The runs of the job next to a reader of the cursor file (one day "today",
\* local sink only).  SaveState is a save the reader does not read during;
\* SaveOpen and SaveClose are one it can.
InitReader ==
    /\ Init
    /\ clock_day = TodayDay
    /\ ~config.s3_enabled

NextReader ==
    \/ Next
    \/ SaveOpen
    \/ SaveClose
    \/ Read

SpecReader == InitReader /\ [][NextReader]_vars


\* ------------------------------------------------------------ properties
\* Positions of run() inside the body of the day loop.
InDay == pc \in {"get_logs", "page_export", "page_fetch", "tail", "save"}

\* <<1, 2, ..., n>>
Iota(n) == [i \in 1..n |-> i]

\* The kinds of response section 6 of the specification calls a fetch failure.
FetchFailures == {"transport", "malformed", "nonsuccess"}

\* C1: once the last log-source call for the current day window has ended in
\* a transport error, a malformed body or a status other than "success", no
\* step changes the cursor file: the window's cursor is not saved.
C1_FetchFailureKeepsCursor ==
    [][(last_kind \in FetchFailures) => (file_state' = file_state)]_vars

\* C2: with both sinks enabled, after every __export_logs call a failed
\* local write has still been followed by an attempt of the object-storage
\* write, and a failed object-storage write has left the local write done.
C2_SinkIsolation ==
    (config.local_enabled /\ config.s3_enabled) =>
        /\ sinks.local = "fail" => sinks.s3 # "none"
        /\ sinks.s3 = "fail" => sinks.local = "ok"

C4_HoldoffInvariant ==
    InDay => Seconds(ts_start) < Seconds(ts_holdoff)

\* C5: while an export is processed, the window start is the key's cursor
\* whenever the key has one, and the window ends after it; the configured
\* time_start is the window start only while the key has no cursor.
C5_CursorPrecedence ==
    (pc = "while" \/ InDay) =>
        IF key \in DOMAIN dict_state
        THEN /\ ts_start = dict_state[key]
             /\ Seconds(ts_end) > Seconds(dict_state[key])
        ELSE ts_start = Nano(config.exports[idx].time_start)

\* C5 witness: the first window of an export in a run starts at a cursor
\* that differs from the export's configured time_start.
C5_Witness ==
    /\ pc = "get_logs"
    /\ day_counter = 1
    /\ key \in DOMAIN dict_state
    /\ ts_start = dict_state[key]
    /\ ts_start # Nano(config.exports[idx].time_start)


\* A key whose cursor in the file differs between two maps.
Written(old, new) ==
    {k \in DOMAIN new : k \notin DOMAIN old \/ new[k] # old[k]}

\* C6: whatever step writes a cursor into the file (crashes included), it
\* writes the end of the current window for the current key, and by then
\* every __get_logs call of the window has returned, the last one with less
\* than a full page, and every batch fetched has been through an
\* __export_logs call that returned.
C6_ExportBeforePersist ==
    [][\A k \in Written(file_state.map, file_state'.map) :
          /\ k = key
          /\ file_state'.map[k] = ts_end
          /\ n_get >= 1
          /\ last_kind \in {"nonsuccess", "empty", "groups"}
          /\ n_full = n_get - 1
          /\ Len(exp_iters) = n_batches
          /\ sinks.local # "fail" /\ sinks.s3 # "fail"]_vars


\* C6 witness: the cursor of a day of two batches has just been written,
\* after both batches were exported.
C6_Witness ==
    /\ pc = "while"
    /\ day_counter >= 1
    /\ n_batches = 2
    /\ exp_iters = <<1, 2>>
    /\ key \in DOMAIN file_state.map
    /\ file_state.map[key] = ts_start
    /\ Seconds(ts_start) = attempted[key]

\* C7: a day whose first (and then only) fetch came back successful without
\* a result group has no __export_logs call; the run goes straight to the
\* cursor write, after which the key's cursor in memory and in the file is
\* the end of that window and the next window starts there.
C7_ZeroResultDay ==
    (n_get = 1 /\ last_kind = "empty") =>
        /\ exp_iters = <<>>
        /\ pc \in {"save", "while", "for", "done"}
        /\ pc # "save" =>
              /\ key \in DOMAIN file_state.map
              /\ file_state.map[key] = Nano(attempted[key])
              /\ dict_state[key] = file_state.map[key]
              /\ ts_start = file_state.map[key]

\* C7 witness: the cursor has been written for a day without results.
C7_Witness ==
    /\ pc = "while"
    /\ day_counter >= 1
    /\ n_get = 1 /\ last_kind = "empty"
    /\ file_state.map[key] = ts_start

\* C8: a cursor in the file is never after the end of the last window a
\* fetch was made for under its key, and no step, within a run or from one
\* run to the next, removes a key's cursor or makes it smaller.
C8_CursorMonotone ==
    /\ [](\A k \in DOMAIN file_state.map :
             k \in DOMAIN attempted /\ Seconds(file_state.map[k]) <= attempted[k])
    /\ [][\A k \in DOMAIN file_state.map :
             /\ k \in DOMAIN file_state'.map
             /\ Seconds(file_state'.map[k]) >= Seconds(file_state.map[k])]_vars

\* C8 witness: with a single enabled export and a cap of one day per run,
\* the key's cursor is at least two windows after the configured start: it
\* was written in three successive runs.
C8_Witness ==
    /\ config.max_days_per_exporter = 1
    /\ ~config.exports[2].enabled
    /\ KeyOf(config.exports[1].query) \in DOMAIN file_state.map
    /\ Seconds(file_state.map[KeyOf(config.exports[1].query)])
          >= config.exports[1].time_start + 2 * DayTicks

\* C9: with a cap M > 0 an export fetches at most M day windows in a run;
\* when the cap ends the day loop, M windows were fetched and the key's
\* cursor, in memory and in the file, is the start of the window the loop
\* stopped at (the end of the last window processed); with no cap (0) the
\* loop ends only where its holdoff guard is false.
C9_MaxDaysCap ==
    /\ config.max_days_per_exporter > 0 => n_days <= config.max_days_per_exporter
    /\ left_by = "cap" =>
          /\ config.max_days_per_exporter > 0
          /\ n_days = config.max_days_per_exporter
          /\ key \in DOMAIN file_state.map
          /\ file_state.map[key] = ts_start
          /\ dict_state[key] = ts_start
    /\ (config.max_days_per_exporter = 0 /\ pc \in {"for", "done"}
          /\ left_by # "none") =>
          /\ left_by = "guard"
          /\ ~HoldoffGuard(ts_start, ts_holdoff)

\* C9 witness: a cap of two days has ended the day loop after two windows.
C9_Witness ==
    /\ left_by = "cap"
    /\ config.max_days_per_exporter = 2
    /\ n_days = 2

\* C10: after a crash at any step, the cursor file still parses and holds,
\* for every key, a cursor at least as advanced as the one last written
\* completely.
C10_CrashSafeCursorFile ==
    pc = "crashed" =>
        \A k \in DOMAIN durable :
            /\ file_state.valid
            /\ k \in DOMAIN file_state.map
            /\ Seconds(file_state.map[k]) >= Seconds(durable[k])

\* C11: whatever another process reads from the cursor file, at any moment
\* of a run, is a complete JSON document (the map before or after the
\* __save_state call under way), never an empty or partly written file.
C11_AtomicCursorReplace ==
    [][(observed' # observed) =>
          (observed'.valid /\ observed'.map \in {durable, dict_state})]_vars

\* C12: a failed sink write in an __export_logs call does not end the run:
\* after it run() is still in the day (on its way to the remaining pages
\* and the cursor write), not aborted by an exception.
C12_SinkFailureKeepsDay ==
    (sinks.local = "fail" \/ sinks.s3 = "fail") => pc # "failed"

\* The characters the key derivation deletes.
Deleted == {"{", "}", "\""}

RECURSIVE Collapsed(_, _)
\* The reference of C13 as stated: braces and double quotes deleted, every
\* maximal run of adjacent other characters that are not lowercase letters
\* replaced by one underscore (in_run: the character before belongs to such
\* a run).
Collapsed(q, in_run) ==
    IF q = <<>> THEN <<>>
    ELSE IF Head(q) \in Deleted THEN Collapsed(Tail(q), FALSE)
    ELSE IF Head(q) \in Lower THEN <<Head(q)>> \o Collapsed(Tail(q), FALSE)
    ELSE (IF in_run THEN <<>> ELSE <<"_">>) \o Collapsed(Tail(q), TRUE)

\* C13, as stated: the key of the export being processed is the reference
\* result with runs collapsed, and holds lowercase letters and underscores
\* only.
C13_ExportKeyAsStated ==
    pc = "while" =>
        /\ key = Collapsed(config.exports[idx].query, FALSE)
        /\ \A i \in 1..Len(key) : key[i] \in Lower \cup {"_"}

\* C13, amended: in every run the key of the export being processed is the
\* query without its braces and double quotes, character by character: a
\* lowercase letter stays, any other character is one underscore (a run of
\* n such characters gives n underscores); the key holds lowercase letters
\* and underscores only.
C13_ExportKey ==
    pc = "while" =>
        LET q == config.exports[idx].query
            IsKept(c) == c \notin Deleted
            kept == SelectSeq(q, IsKept)
        IN  /\ Len(key) = Len(kept)
            /\ \A i \in 1..Len(kept) :
                   key[i] = IF kept[i] \in Lower THEN kept[i] ELSE "_"
            /\ \A i \in 1..Len(key) : key[i] \in Lower \cup {"_"}

\* C13 witness: the key of the query {=Aa is __a: the brace is gone and the
\* run of two other characters has given two underscores.
C13_Witness ==
    /\ pc = "while"
    /\ config.exports[idx].query = <<"{", "=", "A", "a">>
    /\ key = <<"_", "_", "a">>

\* C14: when a run without max-days cap has returned, the cursor of every
\* enabled export whose first window began before the holdoff boundary is
\* at or after the boundary (an export without cursor has not had a window
\* processed: its first window is that of its configured time_start).
C14_RunCompletion ==
    (pc = "done" /\ config.max_days_per_exporter = 0) =>
        \A i \in 1..Len(config.exports) :
            config.exports[i].enabled =>
                LET k == KeyOf(config.exports[i].query)
                    boundary == today - config.export_holdoff_days * DayTicks
                IN  IF k \in DOMAIN file_state.map
                    THEN Seconds(file_state.map[k]) >= boundary
                    ELSE config.exports[i].time_start >= boundary

\* The lines of a batch passed to __export_logs, in all its result groups.
BatchLines(logs) ==
    UNION { {logs[g].values[n] : n \in 1..Len(logs[g].values)} :
            g \in 1..Len(logs) }

\* The timestamp of the last line of an exported page (of the result group
\* that is written out).
LastTs(logs) == logs[1].values[Len(logs[1].values)][1]

\* C15: within a day the first query is for the day's window; every
\* re-query starts at the timestamp of the last line of the page exported
\* just before it and ends at the day's window end; the query starts do
\* not decrease; the batches are exported under the day's window start,
\* with the iteration numbers 1, 2, ...
C15_PageRequeryWindow ==
    InDay =>
        /\ Len(queries) >= 1 => queries[1] = [start |-> ts_start, end |-> ts_end]
        /\ \A i \in 2..Len(queries) :
               /\ queries[i].end = ts_end
               /\ Len(exported) >= i - 1
               /\ queries[i].start = LastTs(exported[i - 1].logs)
               /\ Seconds(queries[i].start) >= Seconds(queries[i - 1].start)
        /\ \A j \in 1..Len(exported) :
               /\ exported[j].ts_day = ts_start
               /\ exported[j].iteration = j

\* C15 witness: a day of two queries and two exports is at its cursor
\* write; the second query started after the window start.
C15_Witness ==
    /\ SavePoint
    /\ Len(queries) = 2 /\ Len(exported) = 2
    /\ Seconds(queries[2].start) > Seconds(ts_start)

\* C16: the page loop of a day makes progress: no query of a day repeats
\* the query before it.  (The store does not change during the day, so a
\* repeated query gets the same full page again and is repeated for ever:
\* the loop does not end and the cursor write is never reached.)
C16_PageLoopTerminates ==
    \A i \in 1..(Len(queries) - 1) : queries[i + 1] # queries[i]

\* C17: at the cursor write of a day, every line the store holds for the
\* day window has been in a batch passed to __export_logs.
C17_ExportCompleteness ==
    (SavePoint /\ store.present) =>
        \A i \in Held(Seconds(ts_start), Seconds(ts_end)) :
            \E j \in 1..Len(exported) : StoreLine(i) \in BatchLines(exported[j].logs)

\* C18: no line is in two of the batches exported for a day.
C18_NoDuplicateExport ==
    \A i \in 1..Len(exported) : \A j \in (i + 1)..Len(exported) :
        BatchLines(exported[i].logs) \cap BatchLines(exported[j].logs) = {}

\* The value of the batches-sent counter (a counter never incremented has
\* no entry in the metrics and counts as 0).
BatchesSent ==
    IF "batches-sent" \in DOMAIN dict_metrics
    THEN dict_metrics["batches-sent"] ELSE 0

\* C19: when run() has returned, the batches-sent counter is the number of
\* __export_logs calls made during the run.
C19_BatchMetric ==
    pc = "done" => BatchesSent = export_calls

\* The cursor of key k in the map m, <<>> when there is none.
CursorOf(m, k) == IF k \in DOMAIN m THEN m[k] ELSE <<>>

\* C20: no step changes, in memory or in the file, the cursor of a key
\* other than the key of the export being processed; the cursor maps change
\* only at the __save_state call of an enabled export, whose key is derived
\* from its own query; and the step taken at an export that is not enabled
\* goes on to the next export without a fetch, an export or a cursor change.
C20_CursorFrame ==
    [][/\ \A k \in DOMAIN dict_state \cup DOMAIN dict_state'
                 \cup DOMAIN file_state.map \cup DOMAIN file_state'.map :
              k # key =>
                 /\ CursorOf(dict_state', k) = CursorOf(dict_state, k)
                 /\ CursorOf(file_state'.map, k) = CursorOf(file_state.map, k)
       /\ (dict_state' # dict_state \/ file_state' # file_state) =>
              /\ SavePoint
              /\ config.exports[idx].enabled
              /\ key = KeyOf(config.exports[idx].query)
       /\ (pc = "for" /\ idx <= Len(config.exports)
              /\ ~config.exports[idx].enabled) =>
              /\ pc' = "for" /\ idx' = idx + 1
              /\ dict_state' = dict_state /\ file_state' = file_state
              /\ n_get' = n_get /\ attempted' = attempted
              /\ exp_iters' = exp_iters /\ sinks' = sinks]_vars

\* C20 witness: the cursor of the export being processed has just been
\* written while the file holds the cursor of another key as well.
C20_Witness ==
    /\ pc = "while"
    /\ day_counter >= 1
    /\ key \in DOMAIN file_state.map
    /\ file_state.map[key] = ts_start
    /\ Cardinality(DOMAIN file_state.map) = 2

====
